---- MODULE Spec2Model ----
(***************************************************************************)
(* A model of src/main.py (tesla-watcher): one run of the script fetches   *)
(* the inventory, extracts the lease deals at or below the threshold and   *)
(* mails them.  Money is counted in hundredths of a dollar, so that 175.01 *)
(* is 17501 and MAX_LEASE_PAYMENT (175) is 17500 hundredths.               *)
(***************************************************************************)
EXTENDS Integers, Sequences, FiniteSets

VARIABLES
    pc,                     \* position of __main__: start, fetched, extracted, done, crashed
    MAILERSEND_API_TOKEN,   \* module-level configuration read from the environment
    MAILERSEND_DOMAIN,
    MAIL_FROM,
    MAIL_TO,
    outcome,                \* what the inventory request did (a failure kind or "ok")
    data,                   \* value returned by fetch_inventory
    deals,                  \* value returned by find_deals
    exc,                    \* the exception that ended the run, "none" otherwise
    getRequests,            \* number of inventory requests issued
    postRequests,           \* number of delivery requests issued
    payload,                \* JSON payload handed to requests.post, <<>> when none
    findCalls,              \* number of calls of find_deals
    sendCalls,              \* number of calls of send_notification
    delivery,               \* what send_notification logged about the delivery
    car,                    \* the listing under test (lease specification only)
    lease                   \* its resolved lease payment (lease specification only)

vars == <<pc, MAILERSEND_API_TOKEN, MAILERSEND_DOMAIN, MAIL_FROM, MAIL_TO, outcome,
          data, deals, exc, getRequests, postRequests, payload, findCalls, sendCalls,
          delivery, car, lease>>

-----------------------------------------------------------------------------
(* Bounds of the model.                                                    *)

\* longest results sequence of an inventory response
MaxResults == 2

\* largest number of entries of a FinplatDetails mapping
MaxKeys == 2

-----------------------------------------------------------------------------
(* Program constants.                                                      *)

MAX_LEASE_PAYMENT == 175

\* "LEASE", the marker looked for in the keys of FinplatDetails
LEASE == <<"L", "E", "A", "S", "E">>

-----------------------------------------------------------------------------
(* JSON values as Python sees them.  A value is [t, v]: t its type and v   *)
(* its number (in hundredths) where it has one.                            *)

Val(t, v) == [t |-> t, v |-> v]
PyNone == Val("null", 0)
Num(n) == Val("num", n)            \* a JSON number, e.g. 175 or 175.01
NumStr(n) == Val("numstr", n)      \* a string float() parses, e.g. "150"
EmptyStr == Val("emptystr", 0)     \* ""
BadStr == Val("badstr", 0)         \* a string float() rejects, e.g. "abc"
List == Val("list", 0)             \* a non-empty JSON array
BigInt == Val("bigint", 0)         \* an integer beyond the range of a float

\* `val is not None` in the place of the truth value
IsNotNone(val) == val.t # "null"

\* Python truth value of a JSON value (the `or` of line 96 and `if val` of line 97)
Truthy(val) ==
    CASE val.t = "null" -> FALSE
      [] val.t = "num" -> val.v # 0
      [] val.t = "emptystr" -> FALSE
      [] OTHER -> TRUE

\* float(val): the number, or the exception float raises
float(val) ==
    CASE val.t = "num" -> [exc |-> "none", v |-> val.v]
      [] val.t = "numstr" -> [exc |-> "none", v |-> val.v]
      [] val.t \in {"emptystr", "badstr"} -> [exc |-> "ValueError", v |-> 0]
      [] val.t \in {"null", "list"} -> [exc |-> "TypeError", v |-> 0]
      [] val.t = "bigint" -> [exc |-> "OverflowError", v |-> 0]

\* `sub in key` on strings, the strings being sequences of characters
Contains(key, sub) ==
    \E i \in 0..(Len(key) - Len(sub)) : \A j \in 1..Len(sub) : key[i + j] = sub[j]

\* the upper-case form of a character of the keys
UpperChar(ch) ==
    CASE ch = "l" -> "L" [] ch = "e" -> "E" [] ch = "a" -> "A" [] ch = "s" -> "S"
      [] OTHER -> ch

\* "LEASE" in key.upper()
IsLeaseKeyAnyCase(key) == Contains([i \in DOMAIN key |-> UpperChar(key[i])], LEASE)

\* line 88: if "LEASE" in key
IsLeaseKey(key) == Contains(key, LEASE)

-----------------------------------------------------------------------------
(* The nested finance data.  A block ("outputs" or "inputs") is missing,   *)
(* null, or a dict whose monthlyPayment is mp (PyNone when it has none).   *)

Block(k, mp) == [k |-> k, mp |-> mp]
MissingBlock == Block("missing", PyNone)
NullBlock == Block("null", PyNone)
Dict(mp) == Block("dict", mp)

\* "calculated": missing, null, or a dict with the two blocks
Calc(k, o, i) == [k |-> k, outputs |-> o, inputs |-> i]
MissingCalc == Calc("missing", MissingBlock, MissingBlock)
NullCalc == Calc("null", MissingBlock, MissingBlock)

\* a value of FinplatDetails: null, or a dict with its "calculated"
NullEntry == [k |-> "null", calc |-> MissingCalc]
Entry(calc) == [k |-> "dict", calc |-> calc]

\* block.get("monthlyPayment") on a dict; the {} default of a missing block has none
GetMonthlyPayment(block) == IF block.k = "dict" THEN block.mp ELSE PyNone

Resolved(v) == [st |-> "val", v |-> v, exc |-> "none"]
Skipped == [st |-> "skip", v |-> 0, exc |-> "none"]
Raised(e) == [st |-> "raise", v |-> 0, exc |-> e]

\* the exceptions the try of lines 89-101 catches
Caught(e) == e \in {"ValueError", "TypeError"}

\* lines 97-101: if val: lease_payment = float(val); break / except: continue
Coerce(val) ==
    IF Truthy(val)
    THEN LET f == float(val)
         IN  IF f.exc = "none" THEN Resolved(f.v)
             ELSE IF Caught(f.exc) THEN Skipped
             ELSE Raised(f.exc)
    ELSE Skipped

\* line 96: val = outputs.get("monthlyPayment") or inputs.get("monthlyPayment");
\* inputs is only dereferenced when the outputs value is falsy
SelectVal(outputs, inputs) ==
    IF outputs.k = "null" THEN Raised("AttributeError")
    ELSE LET o == GetMonthlyPayment(outputs)
         IN  IF Truthy(o) THEN Coerce(o)
             ELSE IF inputs.k = "null" THEN Raised("AttributeError")
             ELSE Coerce(GetMonthlyPayment(inputs))

\* lines 89-101, the body of the loop for one lease-like key; AttributeError is
\* not among the caught exceptions
TryLeaseEntry(finance_data) ==
    IF finance_data.k = "null" THEN Raised("AttributeError")
    ELSE LET calc == finance_data.calc
         IN  IF calc.k = "null" THEN Raised("AttributeError")
             ELSE IF calc.k = "missing" THEN SelectVal(MissingBlock, MissingBlock)
             ELSE SelectVal(calc.outputs, calc.inputs)

\* lines 87-101: the scan of fin_details.items() from entry i on
RECURSIVE ScanLease(_, _)
ScanLease(items, i) ==
    IF i > Len(items) THEN Skipped
    ELSE IF ~IsLeaseKey(items[i][1]) THEN ScanLease(items, i + 1)
    ELSE LET r == TryLeaseEntry(items[i][2])
         IN  IF r.st = "skip" THEN ScanLease(items, i + 1) ELSE r

\* lines 82-101: lease_payment of a listing; FinplatDetails is missing ({} by
\* default), null (None.items() raises) or a mapping
ResolveLease(c) ==
    IF c.FinplatDetails.k = "null" THEN Raised("AttributeError")
    ELSE IF c.FinplatDetails.k = "missing" THEN Skipped
    ELSE ScanLease(c.FinplatDetails.items, 1)

-----------------------------------------------------------------------------
(* Listings and deal records.  An optional field is <<>> or <<value>>.     *)

Listing(vin, year, price, invPrice, fin) ==
    [VIN |-> vin, Year |-> year, Price |-> price, InventoryPrice |-> invPrice,
     FinplatDetails |-> fin]

MissingFin == [k |-> "missing", items |-> <<>>]
NullFin == [k |-> "null", items |-> <<>>]
Fin(items) == [k |-> "dict", items |-> items]

\* lines 76-77: car.get(field, "N/A")
GetOrNA(field) == IF field = <<>> THEN "N/A" ELSE field[1]

\* line 79: car.get("Price", car.get("InventoryPrice", 0))
GetPrice(c) ==
    IF c.Price # <<>> THEN c.Price[1]
    ELSE IF c.InventoryPrice # <<>> THEN c.InventoryPrice[1]
    ELSE 0

\* line 117: the order link, built from the VIN alone
Link(vin) == <<"https://www.tesla.com/m3/order/", vin, "?titleStatus=USED">>

\* line 110: lease_payment <= MAX_LEASE_PAYMENT
StrictlyBelowThreshold(lease_payment) == lease_payment < MAX_LEASE_PAYMENT * 100
WithinThreshold(lease_payment) == lease_payment <= MAX_LEASE_PAYMENT * 100

\* lines 112-118: the record appended for a match
DealRecord(c, lease_payment) ==
    [vin |-> GetOrNA(c.VIN), year |-> GetOrNA(c.Year), price |-> GetPrice(c),
     lease_payment |-> lease_payment, link |-> Link(GetOrNA(c.VIN))]

\* line 112: deals.append(record)
PrependDeal(ds, rec) == <<rec>> \o ds
AppendDeal(ds, rec) == Append(ds, rec)

Returned(ds) == [raised |-> FALSE, exc |-> "none", deals |-> ds]
Threw(e) == [raised |-> TRUE, exc |-> e, deals |-> <<>>]

\* lines 75-122: the loop over data["results"] from listing i on
RECURSIVE LoopCars(_, _, _)
LoopCars(results, i, ds) ==
    IF i > Len(results) THEN Returned(ds)
    ELSE LET r == ResolveLease(results[i])
         IN  IF r.st = "raise" THEN Threw(r.exc)
             ELSE IF r.st = "val" /\ WithinThreshold(r.v)
                  THEN LoopCars(results, i + 1, AppendDeal(ds, DealRecord(results[i], r.v)))
             ELSE LoopCars(results, i + 1, ds)

-----------------------------------------------------------------------------
(* The response body: JSON null, or an object that may have a "results"    *)
(* array and may have other fields.  fetch_inventory's None is Null too.   *)

Body(k, hasResults, results, other) ==
    [k |-> k, hasResults |-> hasResults, results |-> results, other |-> other]
Null == Body("null", FALSE, <<>>, FALSE)
Object(hasResults, results, other) == Body("object", hasResults, results, other)

\* Python truth value of data: None and {} are falsy
DataTruthy(d) == d.k = "object" /\ (d.hasResults \/ d.other)

\* line 68: not data or "results" not in data
NoResults(d) == ~DataTruthy(d) \/ ~d.hasResults

\* lines 67-124
find_deals(d) == IF NoResults(d) THEN Returned(<<>>) ELSE LoopCars(d.results, 1, <<>>)

-----------------------------------------------------------------------------
(* The notifier.                                                           *)

\* os.environ.get of an unset variable
CfgNone == "<None>"

\* Python truth value of a configuration string: None and "" are falsy
CfgTruthy(c) == c \notin {CfgNone, ""}

\* line 133: not MAILERSEND_API_TOKEN or not MAIL_TO
ConfigMissingBoth(token, to) == ~CfgTruthy(token) /\ ~CfgTruthy(to)
ConfigMissing(token, to) == ~CfgTruthy(token) \/ ~CfgTruthy(to)

\* line 158: MAIL_FROM or f"notifier@{MAILERSEND_DOMAIN}"
SenderEmail(from, domain) == IF CfgTruthy(from) THEN <<from>> ELSE <<"notifier@", domain>>

\* lines 143-146: one line per deal, in the order of deals
BodyLines(ds) ==
    [i \in 1..Len(ds) |->
        [year |-> ds[i].year, lease_payment |-> ds[i].lease_payment, link |-> ds[i].link]]

\* lines 138-174: the payload posted to the mail API
ComposePayload(ds, from, domain, to) ==
    [from |-> SenderEmail(from, domain), to |-> to, subject |-> Len(ds),
     text |-> BodyLines(ds)]

\* what requests.post did: a status code, or an exception
SuccessStatus == {"200", "202"}
PostOutcomes == SuccessStatus \cup {"422", "500", "exception"}

\* lines 176-184: what the notifier logs about the attempt
DeliveryLog(po) ==
    IF po = "exception" THEN "error"
    ELSE IF po \in SuccessStatus THEN "sent"
    ELSE "failed"

\* lines 183-184: except Exception catches whatever requests.post throws
EscapesOnException(po) == po = "exception"
DeliveryEscapes(po) == FALSE

NoRequest(log) == [requests |-> 0, payload |-> <<>>, raised |-> FALSE, log |-> log]

\* lines 126-184
send_notification(ds, token, domain, from, to, po) ==
    IF ds = <<>> THEN NoRequest("no deals")
    ELSE IF ConfigMissing(token, to) THEN NoRequest("missing config")
    ELSE [requests |-> 1, payload |-> <<ComposePayload(ds, from, domain, to)>>,
          raised |-> DeliveryEscapes(po), log |-> DeliveryLog(po)]

-----------------------------------------------------------------------------
(* The fetcher.                                                            *)

\* the ways requests.get, raise_for_status and r.json() fail
FetchFailures == {"network", "timeout", "status", "decode"}

\* lines 59-65: the decoded body, or None after any exception
ErrorObject(o, body) == IF o \in FetchFailures THEN Object(FALSE, <<>>, TRUE) ELSE body
fetch_inventory(o, body) == IF o \in FetchFailures THEN Null ELSE body

\* line 196: if deals
Always(ds) == TRUE
MainNotifies(ds) == ds # <<>>

-----------------------------------------------------------------------------
(* Inputs.                                                                 *)

KeyLease == <<"L", "E", "A", "S", "E">>
KeyAutoLease == <<"A", "_", "L", "E", "A", "S", "E", "_", "3">>
KeyLower == <<"a", "_", "l", "e", "a", "s", "e">>
KeyLoan == <<"L", "O", "A", "N">>

Outputs(mp) == Entry(Calc("dict", Dict(mp), MissingBlock))
Inputs(mp) == Entry(Calc("dict", MissingBlock, Dict(mp)))

\* the listings of the responses of a run
RunListings ==
    { Listing(<<"5YJ3E1EA0">>, <<"2020">>, <<2100000>>, <<>>,
              Fin(<< <<KeyAutoLease, Outputs(Num(15000))>> >>)),
      Listing(<<"VIN175">>, <<"2021">>, <<>>, <<2500000>>,
              Fin(<< <<KeyLoan, NullEntry>>, <<KeyLease, Outputs(Num(17500))>> >>)),
      Listing(<<"VIN17501">>, <<"2022">>, <<2600000>>, <<2700000>>,
              Fin(<< <<KeyLease, Outputs(Num(17501))>> >>)),
      Listing(<<>>, <<>>, <<>>, <<>>,
              Fin(<< <<KeyLease, Outputs(BadStr)>>, <<KeyAutoLease, Inputs(NumStr(16000))>> >>)),
      Listing(<<"VINNOFIN">>, <<"2019">>, <<1900000>>, <<>>, MissingFin),
      Listing(<<"VINLOWER">>, <<"2018">>, <<1800000>>, <<>>,
              Fin(<< <<KeyLower, Outputs(Num(15000))>> >>)),
      Listing(<<"VINZERO">>, <<"2023">>, <<2300000>>, <<>>,
              Fin(<< <<KeyLease, Entry(Calc("dict", Dict(Num(0)), Dict(EmptyStr)))>> >>)),
      Listing(<<"VINNULL">>, <<"2024">>, <<2400000>>, <<>>,
              Fin(<< <<KeyLease, NullEntry>> >>)) }

\* the response bodies without a results array
NoResultBodies == {Null} \cup { Object(FALSE, <<>>, other) : other \in BOOLEAN }

\* the blocks and entries of the listings of the lease specification
OutBlocks ==
    { MissingBlock, NullBlock, Dict(PyNone), Dict(Num(0)), Dict(EmptyStr),
      Dict(Num(17500)), Dict(BadStr), Dict(List), Dict(BigInt) }
InBlocks == { MissingBlock, NullBlock, Dict(Num(0)), Dict(EmptyStr), Dict(NumStr(15000)) }
Entries ==
    { NullEntry, Entry(MissingCalc), Entry(NullCalc) }
    \cup { Entry(Calc("dict", o, i)) : o \in OutBlocks, i \in InBlocks }
Keys == { KeyLease, KeyAutoLease, KeyLower }

\* a JSON object has each key once
KeySeqs(n) == { ks \in [1..n -> Keys] : \A i, j \in 1..n : ks[i] = ks[j] => i = j }
Items(ks, es) == [i \in DOMAIN ks |-> <<ks[i], es[i]>>]
Car(fin) == Listing(<<"5YJ3E1EA0">>, <<"2020">>, <<2100000>>, <<>>, fin)

NoCar == Listing(<<>>, <<>>, <<>>, <<>>, MissingFin)

-----------------------------------------------------------------------------
(* One run of the script.                                                  *)

Init ==
    /\ pc = "start"
    /\ MAILERSEND_API_TOKEN \in {CfgNone, "", "token"}
    /\ MAILERSEND_DOMAIN \in {CfgNone, "example.mlsender.net"}
    /\ MAIL_FROM \in {CfgNone, "from@example.net"}
    /\ MAIL_TO \in {CfgNone, "", "to@example.net"}
    /\ outcome = "none"
    /\ data = Null
    /\ deals = <<>>
    /\ exc = "none"
    /\ getRequests = 0
    /\ postRequests = 0
    /\ payload = <<>>
    /\ findCalls = 0
    /\ sendCalls = 0
    /\ delivery = "none"
    /\ car = NoCar
    /\ lease = Skipped

config == <<MAILERSEND_API_TOKEN, MAILERSEND_DOMAIN, MAIL_FROM, MAIL_TO>>

\* line 187: data = fetch_inventory()
FetchInventory ==
    /\ pc = "start"
    /\ \E o \in FetchFailures \cup {"ok"} :
          /\ outcome' = o
          /\ \/ \E body \in NoResultBodies : data' = fetch_inventory(o, body)
             \/ \E n \in 0..MaxResults : \E rs \in [1..n -> RunListings], other \in BOOLEAN :
                   data' = fetch_inventory(o, Object(TRUE, rs, other))
    /\ getRequests' = getRequests + 1
    /\ pc' = "fetched"
    /\ UNCHANGED <<config, deals, exc, postRequests, payload, findCalls, sendCalls, delivery, car, lease>>

\* lines 188-195: if data: deals = find_deals(data)
FindDeals ==
    /\ pc = "fetched"
    /\ DataTruthy(data)
    /\ LET r == find_deals(data)
       IN  /\ deals' = r.deals
           /\ exc' = r.exc
           /\ pc' = IF r.raised THEN "crashed" ELSE "extracted"
    /\ findCalls' = findCalls + 1
    /\ UNCHANGED <<config, outcome, data, getRequests, postRequests, payload, sendCalls, delivery, car, lease>>

\* lines 198-199: else: print("No data received.")
NoData ==
    /\ pc = "fetched"
    /\ ~DataTruthy(data)
    /\ pc' = "done"
    /\ UNCHANGED <<config, outcome, data, deals, exc, getRequests, postRequests, payload,
                   findCalls, sendCalls, delivery, car, lease>>

\* lines 196-197: if deals: send_notification(deals)
SendNotification ==
    /\ pc = "extracted"
    /\ MainNotifies(deals)
    /\ \E po \in PostOutcomes :
          LET r == send_notification(deals, MAILERSEND_API_TOKEN, MAILERSEND_DOMAIN,
                                     MAIL_FROM, MAIL_TO, po)
          IN  /\ postRequests' = postRequests + r.requests
              /\ payload' = r.payload
              /\ delivery' = r.log
              /\ pc' = IF r.raised THEN "crashed" ELSE "done"
    /\ sendCalls' = sendCalls + 1
    /\ UNCHANGED <<config, outcome, data, deals, exc, getRequests, findCalls, car, lease>>

\* line 196 with no deals: the run ends
NoDeals ==
    /\ pc = "extracted"
    /\ ~MainNotifies(deals)
    /\ pc' = "done"
    /\ UNCHANGED <<config, outcome, data, deals, exc, getRequests, postRequests, payload,
                   findCalls, sendCalls, delivery, car, lease>>

Next == FetchInventory \/ FindDeals \/ NoData \/ SendNotification \/ NoDeals

Spec == Init /\ [][Next]_vars

-----------------------------------------------------------------------------
(* find_deals applied to one listing, for the claims about the resolution  *)
(* of the lease payment.                                                   *)

LeaseInit ==
    /\ pc = "listing"
    /\ \/ car \in {Car(MissingFin), Car(NullFin)}
       \/ \E n \in 0..MaxKeys : \E ks \in KeySeqs(n), es \in [1..n -> Entries] :
             car = Car(Fin(Items(ks, es)))
    /\ lease = Skipped
    /\ MAILERSEND_API_TOKEN = CfgNone
    /\ MAILERSEND_DOMAIN = CfgNone
    /\ MAIL_FROM = CfgNone
    /\ MAIL_TO = CfgNone
    /\ outcome = "ok"
    /\ data = Object(TRUE, <<car>>, FALSE)
    /\ deals = <<>>
    /\ exc = "none"
    /\ getRequests = 0
    /\ postRequests = 0
    /\ payload = <<>>
    /\ findCalls = 0
    /\ sendCalls = 0
    /\ delivery = "none"

\* find_deals({"results": [car]})
ApplyFindDeals ==
    /\ pc = "listing"
    /\ lease' = ResolveLease(car)
    /\ LET r == find_deals(data)
       IN  /\ deals' = r.deals
           /\ exc' = r.exc
           /\ pc' = IF r.raised THEN "raised" ELSE "returned"
    /\ findCalls' = findCalls + 1
    /\ UNCHANGED <<config, outcome, data, getRequests, postRequests, payload, sendCalls, delivery, car>>

LeaseNext == ApplyFindDeals

LeaseSpec == LeaseInit /\ [][LeaseNext]_vars

-----------------------------------------------------------------------------
(* Vocabulary of the properties.                                           *)

\* the keys of the inputs that hold "LEASE", and those that do not
LeaseKeys == {KeyLease, KeyAutoLease}
OtherKeys == {KeyLower, KeyLoan}

\* the listing has one lease-like key, whose calculated outputs give v
PlainLease(c, v) ==
    /\ c.FinplatDetails.k = "dict"
    /\ \E i \in DOMAIN c.FinplatDetails.items :
          /\ c.FinplatDetails.items[i][1] \in LeaseKeys
          /\ c.FinplatDetails.items[i][2] = Outputs(Num(v))
          /\ \A j \in DOMAIN c.FinplatDetails.items :
                j # i => c.FinplatDetails.items[j][1] \in OtherKeys

\* the VIN a record of the listing carries
VinOf(c) == IF c.VIN = <<>> THEN "N/A" ELSE c.VIN[1]

\* find_deals has returned in this run
Extracted == findCalls = 1 /\ pc \in {"extracted", "done"}

\* the payload posted, when one was
Posted == { payload[i] : i \in DOMAIN payload }

\* C1: every record find_deals returns, and every line mailed, has a lease payment
\* of at most 175; a listing at exactly 175 is returned, one at 175.01 is not.
C1_Threshold ==
    Extracted =>
        /\ \A i \in DOMAIN deals : deals[i].lease_payment <= 17500
        /\ \A p \in Posted : \A i \in DOMAIN p.text : p.text[i].lease_payment <= 17500
        /\ \A j \in DOMAIN data.results :
              /\ PlainLease(data.results[j], 17500) =>
                    \E i \in DOMAIN deals :
                        /\ deals[i].vin = VinOf(data.results[j])
                        /\ deals[i].lease_payment = 17500
              /\ PlainLease(data.results[j], 17501) =>
                    \A i \in DOMAIN deals : deals[i].vin # VinOf(data.results[j])

C1_Witness ==
    /\ pc = "done"
    /\ postRequests = 1
    /\ Len(data.results) = 2
    /\ PlainLease(data.results[1], 17500)
    /\ PlainLease(data.results[2], 17501)
    /\ Len(deals) = 1
    /\ deals[1].lease_payment = 17500

\* C3: whatever the fields of a listing, find_deals does not raise and the run
\* does not end in an unhandled exception.
C3_NoUnhandledException == findCalls = 1 => pc \in {"extracted", "done"}

\* the configuration value is absent
Absent(c) == c = CfgNone \/ c = ""

\* C4, as stated: with the credentials, the sender or the recipient absent,
\* send_notification issues no request.
C4_AnyAbsent ==
    (sendCalls = 1 /\ deals # <<>>
        /\ (Absent(MAILERSEND_API_TOKEN) \/ Absent(MAIL_FROM) \/ Absent(MAIL_TO)))
    => (postRequests = 0 /\ pc = "done")

\* C4, amended: with the API token or the recipient absent, send_notification
\* issues no request and returns; with both present it issues the request, an
\* absent MAIL_FROM being replaced by notifier@MAILERSEND_DOMAIN.
C4_TokenOrRecipientAbsent ==
    (sendCalls = 1 /\ deals # <<>>) =>
        /\ pc = "done"
        /\ (Absent(MAILERSEND_API_TOKEN) \/ Absent(MAIL_TO)) =>
              (postRequests = 0 /\ payload = <<>>)
        /\ (~Absent(MAILERSEND_API_TOKEN) /\ ~Absent(MAIL_TO)) =>
              /\ postRequests = 1
              /\ \A p \in Posted :
                    p.from = IF Absent(MAIL_FROM) THEN <<"notifier@", MAILERSEND_DOMAIN>>
                             ELSE <<MAIL_FROM>>

C4_Witness ==
    /\ sendCalls = 1
    /\ deals # <<>>
    /\ Absent(MAILERSEND_API_TOKEN)
    /\ ~Absent(MAIL_TO)
    /\ ~Absent(MAIL_FROM)
    /\ pc = "done"
    /\ postRequests = 0

\* C5: when the inventory request fails, fetch_inventory returns None without
\* raising, and the run ends with neither find_deals nor send_notification called.
C5_FetchFailure ==
    outcome \in FetchFailures =>
        /\ data = Null
        /\ findCalls = 0
        /\ sendCalls = 0
        /\ postRequests = 0
        /\ exc = "none"
        /\ pc \in {"fetched", "done"}
        /\ pc = "fetched" => (ENABLED NoData /\ ~ENABLED FindDeals)

C5_Witness == outcome = "decode" /\ pc = "done" /\ getRequests = 1

\* C6: when the response has no results (an empty results array or no results
\* field), find_deals returns the empty sequence and send_notification is never
\* called, so no delivery request is made.
C6_ZeroResults ==
    (outcome = "ok" /\ data.k = "object" /\ (~data.hasResults \/ data.results = <<>>)) =>
        /\ find_deals(data) = Returned(<<>>)
        /\ deals = <<>>
        /\ sendCalls = 0
        /\ postRequests = 0
        /\ pc # "crashed"

C6_Witness ==
    /\ outcome = "ok"
    /\ data.k = "object"
    /\ data.hasResults
    /\ data.results = <<>>
    /\ findCalls = 1
    /\ pc = "done"

\* the record comes from the listing
FromListing(d, c) ==
    /\ d.vin = VinOf(c)
    /\ d.year = (IF c.Year = <<>> THEN "N/A" ELSE c.Year[1])
    /\ d.link[2] = VinOf(c)

\* C8: the records returned by find_deals, and the lines mailed, follow the order
\* of the listings in the response, each listing giving at most one record.
C8_OrderPreserved ==
    Extracted =>
        /\ \E f \in [DOMAIN deals -> DOMAIN data.results] :
              /\ \A i, j \in DOMAIN deals : i < j => f[i] < f[j]
              /\ \A i \in DOMAIN deals : FromListing(deals[i], data.results[f[i]])
        /\ \A p \in Posted :
              /\ Len(p.text) = Len(deals)
              /\ \A i \in DOMAIN deals :
                    /\ p.text[i].link = deals[i].link
                    /\ p.text[i].year = deals[i].year
                    /\ p.text[i].lease_payment = deals[i].lease_payment

C8_Witness ==
    /\ pc = "done"
    /\ postRequests = 1
    /\ Len(deals) = 2
    /\ deals[1].vin # deals[2].vin
    /\ deals[1].vin = VinOf(data.results[1])

\* C10: the delivery request is made at most once, only after a successful fetch
\* and an extraction that returned deals; whatever its outcome, send_notification
\* returns and the run reaches its end.
C10_SingleAttempt ==
    /\ postRequests <= 1
    /\ postRequests = 1 =>
          /\ outcome = "ok"
          /\ getRequests = 1
          /\ findCalls = 1
          /\ sendCalls = 1
          /\ deals # <<>>
          /\ pc = "done"
    /\ sendCalls >= 1 => (sendCalls = 1 /\ pc = "done")

C10_Witness == postRequests = 1 /\ delivery = "error" /\ pc = "done"

-----------------------------------------------------------------------------
(* Properties of the resolution of the lease payment (LeaseSpec).          *)

\* the entries of the listing
ItemsOf(c) == c.FinplatDetails.items

\* the positions of its lease-like keys
LeaseIdx(c) == { i \in DOMAIN ItemsOf(c) : ItemsOf(c)[i][1] \in LeaseKeys }

\* a monthly payment that counts as none: null or absent, 0, ""
Empty(val) == val \in {PyNone, Num(0), EmptyStr}

\* the monthlyPayment of a block, PyNone when the block or the field is absent
BlockValue(block) == IF block.k = "dict" THEN block.mp ELSE PyNone

\* the entry is a dict whose calculated, outputs and inputs are dicts or absent
WellFormed(e) ==
    /\ e.k = "dict"
    /\ e.calc.k # "null"
    /\ e.calc.outputs.k # "null"
    /\ e.calc.inputs.k # "null"

\* the value of an entry: its outputs value unless that is empty, else its inputs value
Offered(e) ==
    IF ~Empty(BlockValue(e.calc.outputs)) THEN BlockValue(e.calc.outputs)
    ELSE BlockValue(e.calc.inputs)

\* the entry yields a non-empty numeric monthly payment
Yields(e) == ~Empty(Offered(e)) /\ Offered(e).t \in {"num", "numstr"}

\* the lease-like keys with no yielding lease-like key before them: those the
\* scan consults
Consulted(c) ==
    { i \in LeaseIdx(c) : \A j \in LeaseIdx(c) : j < i => ~Yields(ItemsOf(c)[j][2]) }

\* the first lease-like key that yields, if any
FirstYielding(c) == { i \in Consulted(c) : Yields(ItemsOf(c)[i][2]) }

\* find_deals has been applied to the listing
Applied == pc \in {"returned", "raised"}

\* C2: the lease payment is that of the first lease-like key yielding a non-empty
\* numeric monthly payment, outputs before inputs; a key whose value fails the
\* numeric coercion is skipped, and no key after the resolving one is consulted.
C2_FirstYieldingKey ==
    (Applied /\ car.FinplatDetails.k = "dict"
        /\ \A i \in Consulted(car) : WellFormed(ItemsOf(car)[i][2])) =>
        /\ pc = "returned"
        /\ \A i \in FirstYielding(car) : lease = Resolved(Offered(ItemsOf(car)[i][2]).v)
        /\ FirstYielding(car) = {} => lease = Skipped

\* C2 holds of the values whose coercion raises ValueError or TypeError: the
\* failing case is the integer float() cannot hold
C2_ExceptOverflow ==
    (\A i \in Consulted(car) : Offered(ItemsOf(car)[i][2]) # BigInt) => C2_FirstYieldingKey

C2_Reached ==
    /\ pc = "returned"
    /\ Len(ItemsOf(car)) = 2
    /\ LeaseIdx(car) = {1, 2}
    /\ Offered(ItemsOf(car)[1][2]) = BadStr
    /\ Yields(ItemsOf(car)[2][2])
    /\ lease = Resolved(15000)

\* the entry has no monthly payment under its outputs nor under its inputs
NoPayment(e) ==
    /\ WellFormed(e)
    /\ Empty(BlockValue(e.calc.outputs))
    /\ Empty(BlockValue(e.calc.inputs))

\* C7: a listing whose monthly payment is 0, "" or null/absent under the outputs
\* and the inputs of every lease-like key is unresolved and gives no record.
C7_EmptyPaymentUnresolved ==
    (Applied /\ car.FinplatDetails.k = "dict" /\ LeaseIdx(car) # {}
        /\ \A i \in LeaseIdx(car) : NoPayment(ItemsOf(car)[i][2])) =>
        /\ pc = "returned"
        /\ lease = Skipped
        /\ deals = <<>>

C7_Witness ==
    /\ pc = "returned"
    /\ LeaseIdx(car) = {1, 2}
    /\ ItemsOf(car)[1][2] = Entry(Calc("dict", Dict(Num(0)), Dict(EmptyStr)))
    /\ ItemsOf(car)[2][2] = Entry(Calc("dict", Dict(PyNone), Dict(Num(0))))
    /\ deals = <<>>

\* C9: a listing whose FinplatDetails has no key containing "LEASE" (an empty or
\* absent mapping, or lower-case keys only) is unresolved and gives no record.
C9_NoLeaseKey ==
    (Applied /\ (\/ car.FinplatDetails.k = "missing"
                 \/ /\ car.FinplatDetails.k = "dict"
                    /\ \A i \in DOMAIN ItemsOf(car) : ItemsOf(car)[i][1] \in OtherKeys)) =>
        /\ pc = "returned"
        /\ lease = Skipped
        /\ deals = <<>>

C9_Witness ==
    /\ pc = "returned"
    /\ car.FinplatDetails.k = "dict"
    /\ Len(ItemsOf(car)) = 1
    /\ ItemsOf(car)[1] = <<KeyLower, Entry(Calc("dict", Dict(Num(17500)), MissingBlock))>>
    /\ deals = <<>>

====
